---- MODULE Spec2Model ----
(***************************************************************************)
(* Model of the Wei value type (wei.ts) of emerald-js and of the chain     *)
(* detector exercised by nodeChecker.test.js.                              *)
(*                                                                         *)
(* A BigNumber is modelled as a decimal floating value                     *)
(*     [k, s, c, e]   k = "fin": s * c * 10^e   (s = 1 or -1, c >= 0)      *)
(*                    k = "inf": s * Infinity                              *)
(*                    k = "nan": NaN                                       *)
(* with c free of trailing zeros, as bignumber.js keeps its coefficient.   *)
(* A zero keeps its sign (bignumber.js has a negative zero).               *)
(***************************************************************************)
EXTENDS Integers, Sequences, FiniteSets

\* ------------------------------------------------------------------ bounds
\* Largest number of significant decimal digits of a value the model computes.
MaxDigits == 7
\* Largest number of Wei objects alive in one behaviour (Wei.ZERO included).
MaxObjects == 3
\* Largest `decimals` / `digits` argument drawn for the formatting operations.
MaxDecimals == 3
\* Largest number of Wei objects in a chain of additions and subtractions.
MaxChain == 4
\* Largest number of Wei objects when every operation of the class is applied.
MaxAll == 2

\* ------------------------------------------------- bignumber.js rounding modes
ROUND_HALF_UP == 4
ROUND_HALF_DOWN == 5

\* ------------------------------------------------------- decimal arithmetic
RECURSIVE Pow10(_)
Pow10(n) == IF n <= 0 THEN 1 ELSE 10 * Pow10(n - 1)

RECURSIVE NumDigits(_)
NumDigits(c) == IF c < 10 THEN 1 ELSE 1 + NumDigits(c \div 10)

RECURSIVE Strip(_, _, _)
Strip(s, c, e) ==
  IF c = 0 THEN [k |-> "fin", s |-> s, c |-> 0, e |-> 0]
  ELSE IF c % 10 = 0 THEN Strip(s, c \div 10, e + 1)
  ELSE [k |-> "fin", s |-> s, c |-> c, e |-> e]

\* new BigNumber(n) for a finite decimal s * c * 10^e
Num(s, c, e) == Strip(s, c, e)
Infinity(s) == [k |-> "inf", s |-> s, c |-> 0, e |-> 0]
NaN == [k |-> "nan", s |-> 1, c |-> 0, e |-> 0]

Min(a, b) == IF a < b THEN a ELSE b
Max(a, b) == IF a > b THEN a ELSE b

\* BigNumber.prototype.isZero / isNegative / isPositive / isFinite / isInteger
bnIsZero(x) == x.k = "fin" /\ x.c = 0
bnIsNegative(x) == x.k # "nan" /\ x.s < 0
bnIsPositive(x) == x.k # "nan" /\ x.s > 0
bnIsFinite(x) == x.k = "fin"
bnIsInteger(x) == x.k = "fin" /\ x.e >= 0

\* BigNumber.prototype.abs / negated
abs(x) == IF x.k = "nan" THEN x ELSE [x EXCEPT !.s = 1]
negated(x) == IF x.k = "nan" THEN x ELSE [x EXCEPT !.s = -x.s]

\* The order of magnitude of a non-zero finite value: the position of its
\* leading digit.
Order(x) == NumDigits(x.c) + x.e

\* compare() of bignumber.js on magnitudes of two non-zero finite values of the
\* same order of magnitude, after aligning their coefficients.
CmpMag(x, y) ==
  IF Order(x) # Order(y) THEN (IF Order(x) > Order(y) THEN 1 ELSE -1)
  ELSE LET m == Min(x.e, y.e)
           a == x.c * Pow10(x.e - m)
           b == y.c * Pow10(y.e - m)
       IN IF a = b THEN 0 ELSE IF a > b THEN 1 ELSE -1

\* The value comparedTo returns for NaN operands (JavaScript null).
null == 2

\* BigNumber.prototype.comparedTo: 1, -1, 0, or null when either is NaN
comparedTo(x, y) ==
  IF x.k = "nan" \/ y.k = "nan" THEN null
  ELSE IF bnIsZero(x) \/ bnIsZero(y)
       THEN (IF bnIsZero(x) THEN (IF bnIsZero(y) THEN 0 ELSE -y.s) ELSE x.s)
  ELSE IF x.s # y.s THEN x.s
  ELSE IF x.k = "inf" \/ y.k = "inf"
       THEN (IF x.k = y.k THEN 0
             ELSE IF (x.k = "inf") # (x.s < 0) THEN 1 ELSE -1)
  ELSE x.s * CmpMag(x, y)

isEqualTo(x, y) == comparedTo(x, y) = 0
isLessThan(x, y) == comparedTo(x, y) = -1
isGreaterThan(x, y) == comparedTo(x, y) = 1
isLessThanOrEqualTo(x, y) == comparedTo(x, y) \in {-1, 0}
isGreaterThanOrEqualTo(x, y) == comparedTo(x, y) \in {1, 0}

\* BigNumber.prototype.multipliedBy
multipliedBy(x, y) ==
  IF x.k = "nan" \/ y.k = "nan" THEN NaN
  ELSE IF x.k = "inf" \/ y.k = "inf"
       THEN (IF bnIsZero(x) \/ bnIsZero(y) THEN NaN ELSE Infinity(x.s * y.s))
  ELSE Num(x.s * y.s, x.c * y.c, x.e + y.e)

\* Sum of two finite values of the same sign s.
AddMag(s, x, y) ==
  LET m == Min(x.e, y.e)
  IN Num(s, x.c * Pow10(x.e - m) + y.c * Pow10(y.e - m), m)

\* Difference |x| - |y| of two non-zero finite values, carrying x's sign s when
\* |x| > |y|, the opposite sign when |x| < |y|, and +0 when they are equal
\* (ROUNDING_MODE is not ROUND_FLOOR).
SubMag(s, x, y) ==
  LET m == Min(x.e, y.e)
      a == x.c * Pow10(x.e - m)
      b == y.c * Pow10(y.e - m)
  IN IF CmpMag(x, y) = 0 THEN Num(1, 0, 0)
     ELSE IF CmpMag(x, y) = 1 THEN Num(s, a - b, m)
     ELSE Num(-s, b - a, m)

\* BigNumber.prototype.plus and minus, which call each other when the signs differ
plusSame(x, y) ==
  IF x.k = "inf" \/ y.k = "inf" THEN Infinity(x.s)
  ELSE IF bnIsZero(x) \/ bnIsZero(y)
       THEN (IF ~bnIsZero(y) THEN y ELSE IF ~bnIsZero(x) THEN x ELSE Num(x.s, 0, 0))
  ELSE AddMag(x.s, x, y)

minusSame(x, y) ==
  IF x.k = "inf" \/ y.k = "inf"
  THEN (IF x.k = "fin" THEN negated(y) ELSE IF y.k = "fin" THEN x ELSE NaN)
  ELSE IF bnIsZero(x) \/ bnIsZero(y)
       THEN (IF ~bnIsZero(y) THEN negated(y) ELSE IF ~bnIsZero(x) THEN x ELSE Num(1, 0, 0))
  ELSE SubMag(x.s, x, y)

plus(x, y) ==
  IF x.k = "nan" \/ y.k = "nan" THEN NaN
  ELSE IF x.s # y.s THEN minusSame(x, negated(y))
  ELSE plusSame(x, y)

minus(x, y) ==
  IF x.k = "nan" \/ y.k = "nan" THEN NaN
  ELSE IF x.s # y.s THEN plusSame(x, negated(y))
  ELSE minusSame(x, y)

\* round() of bignumber.js: x to dp decimal places under rounding mode rm.
\* A value that rounds to zero keeps its sign.
round(x, dp, rm) ==
  IF x.k # "fin" \/ x.e >= -dp THEN x
  ELSE LET drop == (-x.e) - dp
       IN IF drop > NumDigits(x.c) THEN Num(x.s, 0, 0)
          ELSE LET p == Pow10(drop)
                   q == x.c \div p
                   r == x.c % p
                   up == IF rm = ROUND_HALF_UP THEN 2 * r >= p ELSE 2 * r > p
               IN Num(x.s, IF up THEN q + 1 ELSE q, -dp)

decimalPlaces(x, dp, rm) == round(x, dp, rm)
integerValue(x, rm) == round(x, 0, rm)

\* BigNumber.prototype.dividedToIntegerBy: the quotient truncated toward zero;
\* division by zero yields an infinity or NaN and does not throw.
dividedToIntegerBy(x, y) ==
  IF x.k = "nan" \/ y.k = "nan" THEN NaN
  ELSE IF (x.k = "inf" /\ y.k = "inf") \/ (bnIsZero(x) /\ bnIsZero(y)) THEN NaN
  ELSE IF bnIsZero(x) \/ y.k = "inf" THEN Num(x.s * y.s, 0, 0)
  ELSE IF bnIsZero(y) \/ x.k = "inf" THEN Infinity(x.s * y.s)
  ELSE LET g == x.e - y.e
       IN IF g >= 0 THEN Num(x.s * y.s, (x.c * Pow10(g)) \div y.c, 0)
          ELSE IF -g > NumDigits(x.c) THEN Num(x.s * y.s, 0, 0)
          ELSE Num(x.s * y.s, x.c \div (y.c * Pow10(-g)), 0)

\* BigNumber.prototype.dividedBy for a divisor that is a power of ten, the only
\* divisors wei.ts passes (unit.weis and 10^digits); such a quotient is exact.
dividedBy(x, y) ==
  IF x.k = "nan" THEN NaN
  ELSE IF x.k = "inf" THEN Infinity(x.s * y.s)
  ELSE Num(x.s * y.s, x.c, x.e - y.e)

\* ----------------------------------------------------------------- strings
\* A string is a sequence of one-character strings; indices below are
\* JavaScript's (from 0).
CharAt(str, i) == str[i + 1]

RECURSIVE indexOfFrom(_, _, _)
indexOfFrom(str, ch, i) ==
  IF i >= Len(str) THEN -1
  ELSE IF CharAt(str, i) = ch THEN i
  ELSE indexOfFrom(str, ch, i + 1)
indexOf(str, ch) == indexOfFrom(str, ch, 0)

substring(str, a, b) == SubSeq(str, a + 1, b)
endsWith(str, ch) == Len(str) > 0 /\ str[Len(str)] = ch

DecChars == <<"0", "1", "2", "3", "4", "5", "6", "7", "8", "9">>
HexChars == DecChars \o <<"a", "b", "c", "d", "e", "f">>

RECURSIVE DigitsIn(_, _)
DigitsIn(n, base) ==
  IF n < base THEN <<HexChars[n + 1]>>
  ELSE Append(DigitsIn(n \div base, base), HexChars[(n % base) + 1])

RECURSIVE Zeros(_)
Zeros(n) == IF n <= 0 THEN <<>> ELSE <<"0">> \o Zeros(n - 1)

InfinityStr == <<"I", "n", "f", "i", "n", "i", "t", "y">>
NaNStr == <<"N", "a", "N">>
NonFiniteStr(x) ==
  IF x.k = "nan" THEN NaNStr
  ELSE IF x.s < 0 THEN <<"-">> \o InfinityStr ELSE InfinityStr

\* BigNumber.prototype.toString(16) of an integer or non-finite value
toStringBase16(x) ==
  IF x.k # "fin" THEN NonFiniteStr(x)
  ELSE (IF x.s < 0 /\ x.c # 0 THEN <<"-">> ELSE <<>>)
       \o DigitsIn(x.c * Pow10(x.e), 16)

\* BigNumber.prototype.toFixed(dp, rm): fixed-point notation with exactly dp
\* fractional digits; the sign is that of the unrounded value, and a zero
\* has none.
toFixed(x, dp, rm) ==
  IF x.k # "fin" THEN NonFiniteStr(x)
  ELSE LET r == round(x, dp, rm)
           raw == DigitsIn(r.c, 10) \o Zeros(r.e + dp)
           all == Zeros(dp + 1 - Len(raw)) \o raw
           int == SubSeq(all, 1, Len(all) - dp)
           frac == SubSeq(all, Len(all) - dp + 1, Len(all))
           str == IF dp > 0 THEN int \o <<".">> \o frac ELSE int
       IN IF x.s < 0 /\ x.c # 0 THEN <<"-">> \o str ELSE str

\* ------------------------------------------------------------------ wei.ts
\* Units and ALL_UNITS
Units ==
  [ETHER |-> [name |-> "Ether", weis |-> Num(1, 1, 18)],
   MILLI |-> [name |-> "Milliether", weis |-> Num(1, 1, 15)],
   MICRO |-> [name |-> "Microether", weis |-> Num(1, 1, 12)],
   GWEI |-> [name |-> "Gwei", weis |-> Num(1, 1, 9)],
   MWEI |-> [name |-> "Mwei", weis |-> Num(1, 1, 6)],
   KWEI |-> [name |-> "Kwei", weis |-> Num(1, 1, 3)],
   WEI |-> [name |-> "Wei", weis |-> Num(1, 1, 0)]]

ALL_UNITS ==
  <<Units.ETHER, Units.MILLI, Units.MICRO, Units.GWEI, Units.MWEI, Units.KWEI,
    Units.WEI>>

ZERO_NUM == Num(1, 0, 0)

\* A JavaScript argument of type number | BigNumber: its type tag and its value.
JsNumber(v) == [t |-> "number", v |-> v]
JsBigNumber(v) == [t |-> "BigNumber", v |-> v]

\* convert.toBigNumber: a number or a BigNumber becomes the BigNumber of the
\* same value.
toBigNumber(val) == val.v

\* typeof another === 'number' ? new BigNumber(another) : another
scalarOf(another) == another.v

\* The constructor with ties rounded away from zero.
WeiCtorHalfUp(val, unit) ==
  LET value == toBigNumber(val)
      scaled == IF unit # Units.WEI
                THEN decimalPlaces(multipliedBy(value, unit.weis), 0, ROUND_HALF_UP)
                ELSE value
  IN integerValue(scaled, ROUND_HALF_UP)

\* constructor(val, unit): the value field of the new Wei
WeiCtor(val, unit) ==
  LET value == toBigNumber(val)
      scaled == IF unit # Units.WEI
                THEN decimalPlaces(multipliedBy(value, unit.weis), 0, ROUND_HALF_DOWN)
                ELSE value
  IN integerValue(scaled, ROUND_HALF_DOWN)

\* new Wei(bn) with the default unit, as mul, divide, plus and sub call it
WeiOf(bn) == WeiCtor(JsBigNumber(bn), Units.WEI)

\* mul, divide, plus, sub, minus: the value of the Wei returned
mul(this, another) == WeiOf(multipliedBy(this, scalarOf(another)))

\* divide with the quotient rounded toward negative infinity.
divideFloor(this, another) ==
  LET q == dividedToIntegerBy(this, scalarOf(another))
  IN IF q.k = "fin" /\ q.s < 0
        /\ ~isEqualTo(multipliedBy(q, scalarOf(another)), this)
     THEN WeiOf(minus(q, Num(1, 1, 0)))
     ELSE WeiOf(q)

\* divide(another)
divide(this, another) == WeiOf(dividedToIntegerBy(this, scalarOf(another)))

wplus(this, another) == WeiOf(plus(this, another))
sub(this, another) == WeiOf(minus(this, another))
wminus(this, another) == sub(this, another)

\* isZero, isPositive, isNegative
isZero(this) == bnIsZero(this)
isPositive(this) == bnIsPositive(this) /\ ~isZero(this)
isNegative(this) == bnIsNegative(this) /\ ~isZero(this)

\* accepted.find(u => this.value >= u.weis / del), undefined as <<>>
RECURSIVE find(_, _, _)
find(accepted, this, del) ==
  IF accepted = <<>> THEN <<>>
  ELSE IF isGreaterThanOrEqualTo(this, dividedBy(Head(accepted).weis, del))
       THEN <<Head(accepted)>>
       ELSE find(Tail(accepted), this, del)

\* getUnit returning the last qualifying candidate instead of the first.
RECURSIVE findLast(_, _, _)
findLast(accepted, this, del) ==
  IF accepted = <<>> THEN <<>>
  ELSE LET rest == findLast(Tail(accepted), this, del)
       IN IF rest # <<>> THEN rest
          ELSE IF isGreaterThanOrEqualTo(this, dividedBy(Head(accepted).weis, del))
               THEN <<Head(accepted)>>
               ELSE <<>>

getUnitLast(this, digits, accepted) ==
  IF isEqualTo(this, ZERO_NUM) THEN Units.ETHER
  ELSE LET unit == findLast(accepted, this, Num(1, 1, digits))
       IN IF unit # <<>> THEN unit[1] ELSE Units.WEI

\* getUnit(digits, accepted)
getUnit(this, digits, accepted) ==
  IF isEqualTo(this, ZERO_NUM) THEN Units.ETHER
  ELSE LET unit == find(accepted, this, Num(1, 1, digits))
       IN IF unit # <<>> THEN unit[1] ELSE Units.WEI

\* toUnit(unit), toWei()
toUnit(this, unit) ==
  IF unit = Units.WEI THEN this ELSE dividedBy(this, unit.weis)
toWei(this) == toUnit(this, Units.WEI)

\* toHex()
toHex(this) ==
  (IF isNegative(this) THEN <<"-">> ELSE <<>>)
  \o <<"0", "x">> \o toStringBase16(abs(this))

\* The while loop of toString: the index after the last character kept.
RECURSIVE trimIndex(_, _, _)
trimIndex(num, i, point) ==
  IF CharAt(num, i - 1) = "0" /\ i > point THEN trimIndex(num, i - 1, point)
  ELSE i

\* num.substring(0, i), less a final "."
cutAt(num, i) ==
  LET cut == substring(num, 0, i)
  IN IF endsWith(cut, ".") THEN substring(cut, 0, Len(cut) - 1) ELSE cut

\* The body of `if (!fixed && point > 0)`
trimZeros(num, point) ==
  LET i == trimIndex(num, Len(num), point)
  IN IF i < Len(num) THEN cutAt(num, i) ELSE num

\* num + ' ' + unit.name
withUnit(num, unit, showUnit) ==
  IF showUnit THEN num \o <<" ", unit.name>> ELSE num

\* toString from `const point` on, given num = bn.toFixed(decimals, ROUND_HALF_UP)
formatNum(num, unit, showUnit, fixed) ==
  LET point == indexOf(num, ".")
  IN withUnit(IF ~fixed /\ point > 0 THEN trimZeros(num, point) ELSE num,
              unit, showUnit)

\* toString(unit, decimals, showUnit, fixed)
toString(this, unit, decimals, showUnit, fixed) ==
  formatNum(toFixed(toUnit(this, unit), decimals, ROUND_HALF_UP),
            unit, showUnit, fixed)

\* toEther(decimals, fixed), getEther(decimals)
toEther(this, decimals, fixed) == toString(this, Units.ETHER, decimals, FALSE, fixed)
getEther(this, decimals) == toEther(this, decimals, FALSE)

\* toExchange(rate, decimals), getFiat(r, decimals)
toExchange(this, rate, decimals) ==
  toFixed(multipliedBy(toUnit(this, Units.ETHER), scalarOf(rate)), decimals,
          ROUND_HALF_UP)
getFiat(this, r, decimals) == toExchange(this, JsBigNumber(scalarOf(r)), decimals)

\* equals, compareTo and the order predicates
equals(this, another) == isEqualTo(this, another)
compareTo(this, another) == comparedTo(this, another)

\* ------------------------------------------------------------ state machine
\* heap : the value field of every Wei object created so far, by identity;
\*        heap[1] is the static Wei.ZERO.
\* last : the most recent call, with its arguments and what it returned.
\* chk  : the chain detector's single check (state, transport reply, result).
VARIABLES heap, last, chk

vars == <<heap, last, chk>>

NoCall ==
  [op |-> "none", recv |-> 0, other |-> 0, arg |-> JsNumber(ZERO_NUM),
   unit |-> Units.WEI, decimals |-> 0, fixed |-> FALSE, showUnit |-> FALSE,
   accepted |-> <<>>, ret |-> 0, str |-> <<>>, bn |-> ZERO_NUM,
   retUnit |-> Units.WEI, bool |-> FALSE, num |-> 0, threw |-> "none"]

\* An operation is applied when its result has at most MaxDigits significant
\* digits.
CanMul(x, y) ==
  x.k # "fin" \/ y.k # "fin" \/ NumDigits(x.c) + NumDigits(y.c) <= MaxDigits
CanAdd(x, y) ==
  \/ x.k # "fin" \/ y.k # "fin" \/ x.c = 0 \/ y.c = 0
  \/ Max(Order(x), Order(y)) - Min(x.e, y.e) <= MaxDigits
CanDiv(x, y) ==
  \/ x.k # "fin" \/ y.k # "fin" \/ x.c = 0 \/ y.c = 0
  \/ IF x.e >= y.e THEN NumDigits(x.c) + (x.e - y.e) <= MaxDigits
     ELSE NumDigits(y.c) + (y.e - x.e) <= MaxDigits
CanHex(x) == x.k # "fin" \/ NumDigits(x.c) + x.e <= MaxDigits

\* An operation that writes its result into the newest existing object.
AllocInPlace(h, value) == [h EXCEPT ![Len(h)] = value]

\* this.value = value in a freshly allocated object
Alloc(h, value) == Append(h, value)

\* static ZERO: Wei = new Wei(0)
ZERO == WeiCtor(JsNumber(ZERO_NUM), Units.WEI)

NoCheck == [state |-> "idle", reply |-> <<>>, failed |-> FALSE,
            chain |-> "", chainId |-> -1, error |-> ""]

Init ==
  /\ heap = <<ZERO>>
  /\ last = NoCall
  /\ chk = NoCheck

\* new Wei(val, unit)
Construct(p) ==
  /\ Len(heap) < p.limit
  /\ \E val \in p.vals, unit \in p.units :
       /\ heap' = Alloc(heap, WeiCtor(val, unit))
       /\ last' = [NoCall EXCEPT !.op = "new", !.arg = val, !.unit = unit,
                                 !.ret = Len(heap) + 1]
  /\ UNCHANGED chk

Mul(p) ==
  /\ Len(heap) < p.limit
  /\ \E i \in DOMAIN heap, another \in p.scalars :
       /\ CanMul(heap[i], scalarOf(another))
       /\ heap' = Alloc(heap, mul(heap[i], another))
       /\ last' = [NoCall EXCEPT !.op = "mul", !.recv = i, !.arg = another,
                                 !.ret = Len(heap) + 1]
  /\ UNCHANGED chk

Divide(p) ==
  /\ Len(heap) < p.limit
  /\ \E i \in DOMAIN heap, another \in p.scalars :
       /\ CanDiv(heap[i], scalarOf(another))
       /\ heap' = Alloc(heap, divide(heap[i], another))
       /\ last' = [NoCall EXCEPT !.op = "divide", !.recv = i, !.arg = another,
                                 !.ret = Len(heap) + 1]
  /\ UNCHANGED chk

Plus(p) ==
  /\ Len(heap) < p.limit
  /\ \E i \in DOMAIN heap, j \in DOMAIN heap :
       /\ CanAdd(heap[i], heap[j])
       /\ heap' = Alloc(heap, wplus(heap[i], heap[j]))
       /\ last' = [NoCall EXCEPT !.op = "plus", !.recv = i, !.other = j,
                                 !.ret = Len(heap) + 1]
  /\ UNCHANGED chk

Sub(p) ==
  /\ Len(heap) < p.limit
  /\ \E i \in DOMAIN heap, j \in DOMAIN heap :
       /\ CanAdd(heap[i], heap[j])
       /\ heap' = Alloc(heap, sub(heap[i], heap[j]))
       /\ last' = [NoCall EXCEPT !.op = "sub", !.recv = i, !.other = j,
                                 !.ret = Len(heap) + 1]
  /\ UNCHANGED chk

Minus(p) ==
  /\ Len(heap) < p.limit
  /\ \E i \in DOMAIN heap, j \in DOMAIN heap :
       /\ CanAdd(heap[i], heap[j])
       /\ heap' = Alloc(heap, wminus(heap[i], heap[j]))
       /\ last' = [NoCall EXCEPT !.op = "minus", !.recv = i, !.other = j,
                                 !.ret = Len(heap) + 1]
  /\ UNCHANGED chk

GetUnit(p) ==
  /\ \E i \in DOMAIN heap, digits \in p.decs, accepted \in p.lists :
       last' = [NoCall EXCEPT !.op = "getUnit", !.recv = i, !.decimals = digits,
                              !.accepted = accepted,
                              !.retUnit = getUnit(heap[i], digits, accepted)]
  /\ UNCHANGED <<heap, chk>>

ToUnit(p) ==
  /\ \E i \in DOMAIN heap, unit \in p.units :
       last' = [NoCall EXCEPT !.op = "toUnit", !.recv = i, !.unit = unit,
                              !.bn = toUnit(heap[i], unit)]
  /\ UNCHANGED <<heap, chk>>

ToWei ==
  /\ \E i \in DOMAIN heap :
       last' = [NoCall EXCEPT !.op = "toWei", !.recv = i, !.bn = toWei(heap[i])]
  /\ UNCHANGED <<heap, chk>>

ToHex ==
  /\ \E i \in DOMAIN heap :
       /\ CanHex(heap[i])
       /\ last' = [NoCall EXCEPT !.op = "toHex", !.recv = i, !.str = toHex(heap[i])]
  /\ UNCHANGED <<heap, chk>>

ToString(p) ==
  /\ \E i \in DOMAIN heap, unit \in p.sunits, decimals \in p.decs,
        showUnit \in p.shows, fixed \in BOOLEAN :
       last' = [NoCall EXCEPT !.op = "toString", !.recv = i, !.unit = unit,
                              !.decimals = decimals, !.showUnit = showUnit,
                              !.fixed = fixed,
                              !.str = toString(heap[i], unit, decimals, showUnit, fixed)]
  /\ UNCHANGED <<heap, chk>>

ToEther(p) ==
  /\ \E i \in DOMAIN heap, decimals \in p.decs, fixed \in BOOLEAN :
       last' = [NoCall EXCEPT !.op = "toEther", !.recv = i, !.unit = Units.ETHER,
                              !.decimals = decimals, !.fixed = fixed,
                              !.str = toEther(heap[i], decimals, fixed)]
  /\ UNCHANGED <<heap, chk>>

GetEther(p) ==
  /\ \E i \in DOMAIN heap, decimals \in p.decs :
       last' = [NoCall EXCEPT !.op = "getEther", !.recv = i, !.unit = Units.ETHER,
                              !.decimals = decimals,
                              !.str = getEther(heap[i], decimals)]
  /\ UNCHANGED <<heap, chk>>

ToExchange(p) ==
  /\ \E i \in DOMAIN heap, rate \in p.scalars, decimals \in p.decs :
       /\ CanMul(heap[i], scalarOf(rate))
       /\ last' = [NoCall EXCEPT !.op = "toExchange", !.recv = i, !.arg = rate,
                                 !.decimals = decimals,
                                 !.str = toExchange(heap[i], rate, decimals)]
  /\ UNCHANGED <<heap, chk>>

GetFiat(p) ==
  /\ \E i \in DOMAIN heap, r \in {a \in p.scalars : a.t = "number"},
        decimals \in p.decs :
       /\ CanMul(heap[i], scalarOf(r))
       /\ last' = [NoCall EXCEPT !.op = "getFiat", !.recv = i, !.arg = r,
                                 !.decimals = decimals,
                                 !.str = getFiat(heap[i], r, decimals)]
  /\ UNCHANGED <<heap, chk>>

Equals ==
  /\ \E i \in DOMAIN heap, j \in DOMAIN heap :
       last' = [NoCall EXCEPT !.op = "equals", !.recv = i, !.other = j,
                              !.bool = equals(heap[i], heap[j])]
  /\ UNCHANGED <<heap, chk>>

CompareTo ==
  /\ \E i \in DOMAIN heap, j \in DOMAIN heap :
       last' = [NoCall EXCEPT !.op = "compareTo", !.recv = i, !.other = j,
                              !.num = compareTo(heap[i], heap[j])]
  /\ UNCHANGED <<heap, chk>>

IsLessThan ==
  /\ \E i \in DOMAIN heap, j \in DOMAIN heap :
       last' = [NoCall EXCEPT !.op = "isLessThan", !.recv = i, !.other = j,
                              !.bool = isLessThan(heap[i], heap[j])]
  /\ UNCHANGED <<heap, chk>>

IsLessThanOrEqualTo ==
  /\ \E i \in DOMAIN heap, j \in DOMAIN heap :
       last' = [NoCall EXCEPT !.op = "isLessThanOrEqualTo", !.recv = i, !.other = j,
                              !.bool = isLessThanOrEqualTo(heap[i], heap[j])]
  /\ UNCHANGED <<heap, chk>>

IsGreaterThan ==
  /\ \E i \in DOMAIN heap, j \in DOMAIN heap :
       last' = [NoCall EXCEPT !.op = "isGreaterThan", !.recv = i, !.other = j,
                              !.bool = isGreaterThan(heap[i], heap[j])]
  /\ UNCHANGED <<heap, chk>>

IsGreaterThanOrEqualTo ==
  /\ \E i \in DOMAIN heap, j \in DOMAIN heap :
       last' = [NoCall EXCEPT !.op = "isGreaterThanOrEqualTo", !.recv = i,
                              !.other = j,
                              !.bool = isGreaterThanOrEqualTo(heap[i], heap[j])]
  /\ UNCHANGED <<heap, chk>>

IsPositive ==
  /\ \E i \in DOMAIN heap :
       last' = [NoCall EXCEPT !.op = "isPositive", !.recv = i,
                              !.bool = isPositive(heap[i])]
  /\ UNCHANGED <<heap, chk>>

IsNegative ==
  /\ \E i \in DOMAIN heap :
       last' = [NoCall EXCEPT !.op = "isNegative", !.recv = i,
                              !.bool = isNegative(heap[i])]
  /\ UNCHANGED <<heap, chk>>

IsZero ==
  /\ \E i \in DOMAIN heap :
       last' = [NoCall EXCEPT !.op = "isZero", !.recv = i, !.bool = isZero(heap[i])]
  /\ UNCHANGED <<heap, chk>>

\* ------------------------------------------------------------------ inputs
N(s, c, e) == JsNumber(Num(s, c, e))
B(s, c, e) == JsBigNumber(Num(s, c, e))

\* Candidate lists in largest-to-smallest order: what is left of ALL_UNITS
\* after dropping units from its front and from its back, and two lists
\* with gaps.
Lists ==
  {SubSeq(ALL_UNITS, a, b) : a \in {1, 3}, b \in {0, 5, 7}}
  \cup {<<Units.ETHER, Units.GWEI, Units.WEI>>, <<Units.MILLI, Units.KWEI>>}

\* Spec: construction and arithmetic over up to MaxObjects Wei objects.
ArithP ==
  [limit |-> MaxObjects,
   vals |-> {N(1, 0, 0), N(1, 1, 0), N(-1, 7, 0), B(1, 15, -1), N(-1, 15, -4),
             N(1, 1001, 0)},
   units |-> {Units.WEI, Units.KWEI, Units.ETHER},
   scalars |-> {N(1, 0, 0), B(1, 0, 0), N(-1, 0, 0), N(1, 2, 0), B(-1, 2, 0),
                N(1, 5, -1), B(1, 3, 0), N(-1, 3, 1)}]

Next ==
  \/ Construct(ArithP) \/ Mul(ArithP) \/ Divide(ArithP)
  \/ Plus(ArithP) \/ Sub(ArithP) \/ Minus(ArithP)
  \/ Equals

Spec == Init /\ [][Next]_vars

\* SpecChain: chains of plus, sub and minus over values that divide may have
\* produced, up to MaxChain objects.
ChainP ==
  [limit |-> MaxChain,
   vals |-> {N(1, 1, 0), N(-1, 7, 0)},
   units |-> {Units.WEI, Units.KWEI},
   scalars |-> {N(1, 0, 0), N(1, 2, 0)}]

NextChain ==
  \/ Construct(ChainP) \/ Divide(ChainP)
  \/ Plus(ChainP) \/ Sub(ChainP) \/ Minus(ChainP)
  \/ Equals

SpecChain == Init /\ [][NextChain]_vars

\* SpecAll: every operation of the class, over up to MaxAll objects.
AllP ==
  [limit |-> MaxAll,
   vals |-> {N(1, 1, 0), N(-1, 15, -1), B(1, 25, -4)},
   units |-> {Units.WEI, Units.KWEI},
   scalars |-> {N(1, 0, 0), N(1, 2, 0), B(-1, 5, -1)},
   sunits |-> {Units.KWEI, Units.ETHER},
   decs |-> {0, MaxDecimals},
   shows |-> {FALSE, TRUE},
   lists |-> {ALL_UNITS, <<Units.MILLI, Units.KWEI>>}]

NextAll ==
  \/ Construct(AllP) \/ Mul(AllP) \/ Divide(AllP)
  \/ Plus(AllP) \/ Sub(AllP) \/ Minus(AllP)
  \/ GetUnit(AllP) \/ ToUnit(AllP) \/ ToWei \/ ToHex
  \/ ToString(AllP) \/ ToEther(AllP) \/ GetEther(AllP)
  \/ ToExchange(AllP) \/ GetFiat(AllP)
  \/ Equals \/ CompareTo \/ IsLessThan \/ IsLessThanOrEqualTo
  \/ IsGreaterThan \/ IsGreaterThanOrEqualTo
  \/ IsPositive \/ IsNegative \/ IsZero

SpecAll == Init /\ [][NextAll]_vars

\* SpecFmt: construction from a drawn value and unit (or Wei.ZERO divided by a
\* drawn scalar), then unit selection and formatting of the result.
FmtVals ==
  {JsNumber(Num(s, c, e)) : s \in {1, -1}, c \in {0, 1, 5, 15, 255, 1234},
                            e \in {-19, -4, -1, 0}}

FmtP ==
  [limit |-> 2,
   vals |-> FmtVals,
   units |-> {ALL_UNITS[i] : i \in DOMAIN ALL_UNITS},
   sunits |-> {Units.ETHER, Units.GWEI, Units.KWEI, Units.WEI},
   scalars |-> {N(1, 0, 0), B(-1, 0, 0), N(1, 2, 0)},
   decs |-> 0 .. MaxDecimals,
   shows |-> {FALSE},
   lists |-> Lists]

NextFmt ==
  \/ Construct(FmtP) \/ Divide(FmtP)
  \/ GetUnit(FmtP) \/ ToHex \/ ToString(FmtP)

SpecFmt == Init /\ [][NextFmt]_vars

\* ------------------------------------------------------------ nodeChecker
\* Hashes are short strings over a small alphabet; the registry holds its
\* reference hashes in lower case.
HashChars == {"a", "A", "b", "B", "1"}
toLowerChar(ch) == IF ch = "A" THEN "a" ELSE IF ch = "B" THEN "b" ELSE ch
toLowerCase(str) == [i \in DOMAIN str |-> toLowerChar(str[i])]

Registry ==
  {[hash |-> <<"a", "b", "1">>, chain |-> "mainnet", chainId |-> 61],
   [hash |-> <<"b", "1", "a">>, chain |-> "morden", chainId |-> 62]}

\* The hash the fake transport of nodeChecker.test.js always resolves to.
TestHash == <<"1", "1", "a">>

Hashes ==
  {<<>>} \cup {<<a>> : a \in HashChars}
  \cup {<<a, b>> : a \in HashChars, b \in HashChars}
  \cup {<<a, b, c>> : a \in HashChars, b \in HashChars, c \in HashChars}

\* What a transport's request() does: resolve with a result, resolve with no
\* result field, or reject.
Transports ==
  {[kind |-> "resolve", result |-> h] : h \in Hashes}
  \cup {[kind |-> "noresult", result |-> <<>>], [kind |-> "reject", result |-> <<>>]}

TestTransport == [kind |-> "resolve", result |-> TestHash]

\* A lookup without the unknown record.
lookupFirst(hash) ==
  CHOOSE r \in Registry : TRUE

\* The registry lookup: the record of the matching reference hash, or the
\* implicit unknown record.
lookup(hash) ==
  IF \E r \in Registry : r.hash = toLowerCase(hash)
  THEN CHOOSE r \in Registry : r.hash = toLowerCase(hash)
  ELSE [hash |-> hash, chain |-> "unknown", chainId |-> 0]

\* check(): issue the single request
Check ==
  /\ chk.state = "idle"
  /\ \E t \in Transports \cup {TestTransport} :
       chk' = [chk EXCEPT !.state = "pending", !.reply = t.result,
                          !.failed = (t.kind = "reject"),
                          !.error = IF t.kind = "reject" THEN "transport" ELSE ""]
  /\ UNCHANGED <<heap, last>>

\* the request resolved: classify the hash
Resolve ==
  /\ chk.state = "pending" /\ ~chk.failed
  /\ chk' = [chk EXCEPT !.state = "resolved",
                        !.chain = lookup(chk.reply).chain,
                        !.chainId = lookup(chk.reply).chainId]
  /\ UNCHANGED <<heap, last>>

\* the request rejected: check() rejects with the same error
Reject ==
  /\ chk.state = "pending" /\ chk.failed
  /\ chk' = [chk EXCEPT !.state = "rejected"]
  /\ UNCHANGED <<heap, last>>

NextChecker == Check \/ Resolve \/ Reject

SpecChecker == Init /\ [][NextChecker]_vars

\* ================================================================== claims
ArithOps == {"mul", "divide", "plus", "sub", "minus"}
Half(dp) == Num(1, 5, -(dp + 1))

\* ---- C1: divide by a zero divisor (number or BigNumber, any dividend) raises
\* DivisionByZero and returns no Wei.
C1_DivideByZeroRaises ==
  (last.op = "divide" /\ bnIsZero(scalarOf(last.arg)))
    => (last.threw = "DivisionByZero" /\ last.ret = 0)

\* ---- C2: the stored magnitude of every Wei object is a finite integer.
C2_MagnitudeIntegral ==
  \A i \in DOMAIN heap : bnIsInteger(heap[i])

\* ---- C3: construction with a non-atomic unit stores value * unit.weis rounded
\* to the nearest integer.
C3_Product == multipliedBy(toBigNumber(last.arg), last.unit.weis)
C3_Case == last.op = "new" /\ last.unit # Units.WEI
C3_Nearest ==
  /\ bnIsInteger(heap[last.ret])
  /\ isLessThanOrEqualTo(abs(minus(heap[last.ret], C3_Product)), Half(0))
C3_Tie == isEqualTo(abs(minus(heap[last.ret], C3_Product)), Half(0))

\* C3 as stated: on a tie the more negative neighbour is stored, for either sign.
C3_TieTowardNegative ==
  C3_Case => (C3_Nearest /\ (C3_Tie => isLessThan(heap[last.ret], C3_Product)))

\* C3 as amended: on a tie the neighbour nearer to zero is stored, for either sign.
C3_TieTowardZero ==
  C3_Case =>
    (C3_Nearest /\ (C3_Tie => isLessThan(abs(heap[last.ret]), abs(C3_Product))))

\* A negative product exactly halfway between two integers was constructed.
C3_Witness == C3_Case /\ C3_Tie /\ C3_Product.s < 0 /\ ~bnIsZero(heap[last.ret])

\* ---- C4: a transport that resolves with a hash matching no reference hash makes
\* check() resolve with chain "unknown" and chainId 0.
C4_Unmatched ==
  /\ chk.state \in {"resolved", "rejected"}
  /\ ~chk.failed
  /\ \A r \in Registry : r.hash # toLowerCase(chk.reply)

\* C4: every reply that matches no reference hash ends resolved, as chain
\* "unknown" with chainId 0.
C4_UnknownChain ==
  C4_Unmatched =>
    (chk.state = "resolved" /\ chk.chain = "unknown" /\ chk.chainId = 0)

\* The test's transport was classified.
C4_Witness == C4_Unmatched /\ chk.reply = TestHash /\ chk.chain = "unknown"

\* ---- C5: toHex() is "0x" and the lowercase hexadecimal digits of the absolute
\* value, after a "-" exactly when the magnitude is strictly negative; a zero
\* of either sign renders as "0x0".
HexSet == {HexChars[i] : i \in DOMAIN HexChars}
HexVal(ch) == CHOOSE n \in 0 .. 15 : HexChars[n + 1] = ch
RECURSIVE SeqVal(_, _)
SeqVal(digs, base) ==
  IF digs = <<>> THEN 0
  ELSE base * SeqVal(SubSeq(digs, 1, Len(digs) - 1), base) + HexVal(digs[Len(digs)])

StrictlyNegative(x) == isLessThan(x, ZERO_NUM)

HexOk(v, str) ==
  LET neg == StrictlyNegative(v)
      off == IF neg THEN 1 ELSE 0
      digs == SubSeq(str, off + 3, Len(str))
  IN /\ Len(str) >= off + 3
     /\ neg => str[1] = "-"
     /\ str[off + 1] = "0" /\ str[off + 2] = "x"
     /\ \A k \in DOMAIN digs : digs[k] \in HexSet
     /\ (Len(digs) > 1 => digs[1] # "0")
     /\ v.k = "fin" /\ SeqVal(digs, 16) = v.c * Pow10(v.e)

\* C5: every toHex() result has that form.
C5_ToHexFormat ==
  last.op = "toHex" => HexOk(heap[last.recv], last.str)

\* C5 on the Wei values of finite magnitude.
C5_ToHexFormatFinite ==
  (last.op = "toHex" /\ bnIsFinite(heap[last.recv]))
    => HexOk(heap[last.recv], last.str)

\* ---- C6: toString with exact = true is the value in the unit rounded half-up
\* to exactly `decimals` fractional digits; with exact = false it is that
\* string less its trailing fractional zeros, and less the point when no
\* fractional digit remains.
DecSet == {DecChars[i] : i \in DOMAIN DecChars}
Unsigned(str) == IF str # <<>> /\ str[1] = "-" THEN Tail(str) ELSE str

\* Fixed-point shape: digits, then (when dp > 0) a point and exactly dp digits.
FixedShape(str, dp) ==
  LET u == Unsigned(str)
      n == Len(u)
  IN IF dp = 0
     THEN n >= 1 /\ \A k \in 1 .. n : u[k] \in DecSet
     ELSE /\ n >= dp + 2
          /\ u[n - dp] = "."
          /\ \A k \in 1 .. n : k # n - dp => u[k] \in DecSet

\* The digits of a fixed-point string, without sign and point, less the
\* trailing zeros, and the exponent that goes with them.
RECURSIVE StripZ(_, _)
StripZ(digs, e) ==
  IF Len(digs) > 1 /\ digs[Len(digs)] = "0"
  THEN StripZ(SubSeq(digs, 1, Len(digs) - 1), e + 1)
  ELSE <<digs, e>>

ParseFixed(str, dp) ==
  LET u == SelectSeq(Unsigned(str), LAMBDA ch : ch # ".")
      z == StripZ(u, -dp)
  IN Num(IF str[1] = "-" THEN -1 ELSE 1, SeqVal(z[1], 10), z[2])

\* str is x rounded to dp places, a tie going away from zero (bignumber.js's
\* ROUND_HALF_UP).
RoundsHalfUp(str, x, dp) ==
  /\ FixedShape(str, dp)
  /\ x.k = "fin"
  /\ LET d == abs(minus(ParseFixed(str, dp), x))
     IN /\ isLessThanOrEqualTo(d, Half(dp))
        /\ isEqualTo(d, Half(dp)) => isGreaterThan(abs(ParseFixed(str, dp)), abs(x))

\* Trailing zeros after the point removed, and the point with them.
RECURSIVE DropZeros(_)
DropZeros(str) ==
  IF str[Len(str)] = "0" THEN DropZeros(SubSeq(str, 1, Len(str) - 1))
  ELSE IF str[Len(str)] = "." THEN SubSeq(str, 1, Len(str) - 1)
  ELSE str
Trimmed(str) == IF \E k \in DOMAIN str : str[k] = "." THEN DropZeros(str) ELSE str

ToStringOk(v, unit, dp, fixed, str) ==
  LET exact == toString(v, unit, dp, FALSE, TRUE)
  IN /\ RoundsHalfUp(exact, toUnit(v, unit), dp)
     /\ str = IF fixed THEN exact ELSE Trimmed(exact)

\* C6: every toString() result without unit suffix has that form.
C6_ToStringFormat ==
  (last.op = "toString" /\ ~last.showUnit)
    => ToStringOk(heap[last.recv], last.unit, last.decimals, last.fixed, last.str)

\* C6 on the Wei values of finite magnitude.
C6_ToStringFormatFinite ==
  (last.op = "toString" /\ ~last.showUnit /\ bnIsFinite(heap[last.recv]))
    => ToStringOk(heap[last.recv], last.unit, last.decimals, last.fixed, last.str)

\* ---- C7: getUnit returns Ether for a zero magnitude, else the largest candidate
\* whose weis / 10^digits is <= the magnitude, else Wei.
Range(seq) == {seq[i] : i \in DOMAIN seq}
Qualifying(v, digits, accepted) ==
  {u \in Range(accepted) :
     isLessThanOrEqualTo(dividedBy(u.weis, Num(1, 1, digits)), v)}
Largest(us) == CHOOSE u \in us : \A w \in us : isGreaterThanOrEqualTo(u.weis, w.weis)

C7_Expected(v, digits, accepted) ==
  IF bnIsZero(v) THEN Units.ETHER
  ELSE IF Qualifying(v, digits, accepted) # {}
       THEN Largest(Qualifying(v, digits, accepted))
       ELSE Units.WEI

\* C7: every getUnit() result is the expected unit, and Wei for a negative
\* magnitude.
C7_GetUnit ==
  last.op = "getUnit" =>
    /\ last.retUnit = C7_Expected(heap[last.recv], last.decimals, last.accepted)
    /\ (StrictlyNegative(heap[last.recv]) => last.retUnit = Units.WEI)

\* Several candidates qualified and the largest of them, not the first of the
\* list, was returned.
C7_Witness ==
  /\ last.op = "getUnit"
  /\ Cardinality(Qualifying(heap[last.recv], last.decimals, last.accepted)) >= 2
  /\ last.retUnit # last.accepted[1]
  /\ last.retUnit # Units.WEI

\* ---- C8: a.plus(b).minus(b).equals(a), and the same with sub: a subtraction
\* of b that follows the addition of b gives back a value equal to a.
C8_PlusMinusInverse ==
  [][(/\ last.op = "plus"
      /\ last'.op \in {"sub", "minus"}
      /\ last'.recv = last.ret
      /\ last'.other = last.other)
     => equals(heap'[last'.ret], heap'[last.recv])]_vars

\* C8 when a and b are of finite magnitude.
C8_PlusMinusInverseFinite ==
  [][(/\ last.op = "plus"
      /\ last'.op \in {"sub", "minus"}
      /\ last'.recv = last.ret
      /\ last'.other = last.other
      /\ bnIsFinite(heap[last.recv]) /\ bnIsFinite(heap[last.other]))
     => equals(heap'[last'.ret], heap'[last.recv])]_vars

\* ---- C9: no operation changes the magnitude of an existing Wei (receiver,
\* argument, Wei.ZERO), and an arithmetic operation returns a new object.
C9_Immutable ==
  [][/\ \A i \in DOMAIN heap : i \in DOMAIN heap' /\ heap'[i] = heap[i]
     /\ last'.op \in ArithOps =>
          /\ last'.ret \notin DOMAIN heap
          /\ last'.ret \in DOMAIN heap'
          /\ last'.ret # last'.recv]_vars

\* An arithmetic operation on Wei.ZERO returned a new object of another value,
\* and Wei.ZERO is still zero.
C9_Witness ==
  /\ last.op \in ArithOps /\ last.recv = 1 /\ last.ret = 2
  /\ heap[1] = ZERO /\ heap[2] # heap[1]

\* ---- C10: divide by a nonzero scalar returns the quotient truncated toward
\* zero: an integer r of the quotient's sign with |r| * |s| <= |v| and
\* |v| - |r| * |s| < |s|; a non-finite v gives the non-finite quotient.
C10_Truncated(v, s, r) ==
  IF v.k = "fin"
  THEN /\ bnIsInteger(r)
       /\ bnIsZero(r) \/ r.s = v.s * s.s
       /\ isLessThanOrEqualTo(multipliedBy(abs(r), abs(s)), abs(v))
       /\ isLessThan(minus(abs(v), multipliedBy(abs(r), abs(s))), abs(s))
  ELSE r = (IF v.k = "nan" THEN NaN ELSE Infinity(v.s * s.s))

\* C10: every divide by a nonzero scalar returns a new Wei holding the
\* truncated quotient.
C10_DivideTruncates ==
  (last.op = "divide" /\ ~bnIsZero(scalarOf(last.arg)))
    => /\ last.ret = Len(heap)
       /\ last.ret # last.recv
       /\ C10_Truncated(heap[last.recv], scalarOf(last.arg), heap[last.ret])

\* A negative magnitude was divided with a remainder.
C10_Witness ==
  /\ last.op = "divide" /\ ~bnIsZero(scalarOf(last.arg))
  /\ heap[last.recv].k = "fin" /\ heap[last.recv].s < 0
  /\ ~bnIsZero(heap[last.ret])
  /\ ~isEqualTo(multipliedBy(heap[last.ret], scalarOf(last.arg)), heap[last.recv])

====
